---- MODULE Spec2Model ----
(***************************************************************************)
(* A model of the two Cloud Functions of the robust-data-processor         *)
(* pipeline: the HTTP intake function (ingest_function/main.py) and the    *)
(* Pub/Sub worker (worker_function/main.py), with the message channel and  *)
(* the document store between and behind them.                             *)
(*                                                                         *)
(* Strings are sequences of code points, byte strings are sequences of     *)
(* 0..255, base64 text is a sequence of alphabet indices 0..63 with 64     *)
(* standing for the padding character '='.                                 *)
(***************************************************************************)
EXTENDS Integers, Sequences, FiniteSets, TLC

\* ------------------------------------------------------------------ bounds

\* How many consumer invocations may be in flight at once.
MaxWorkers == 2
\* processed_at takes a value in 0..MaxTime.
MaxTime == 1
\* uuid.uuid4() returns one of MaxUuids values.
MaxUuids == 2
\* The texts _redact_sensitive is called with directly are made of up to MaxChunks
\* chunks.
MaxChunks == 5
\* The texts _simulate_heavy_processing is called with have up to this many
\* characters, or this many around the length at which the default cap sets in.
MaxSleepLen == 8

\* --------------------------------------------------------- values, strings

\* Python's None, as the result of dict.get on a missing key.
None == <<-1>>
\* The marker of a raised UnicodeDecodeError.
DecodeError == <<-2>>

\* A JSON number as a Python int.
JsonInt(n) == <<-3, n>>

\* A mutant of Falsy: the test `v is None` in place of `not v`.
FalsyNoneOnly(v) == v = None

\* Python's truthiness of a str, an int or None: `not v`.
Falsy(v) == v = None \/ v = <<>> \/ v = JsonInt(0)

Min(a, b) == IF a <= b THEN a ELSE b

\* "tenants", "processed_logs", "unknown", "json_upload", "text_upload", "[REDACTED]"
StrTenants == <<116, 101, 110, 97, 110, 116, 115>>
StrProcessedLogs == <<112, 114, 111, 99, 101, 115, 115, 101, 100, 95, 108, 111, 103, 115>>
StrUnknown == <<117, 110, 107, 110, 111, 119, 110>>
StrJsonUpload == <<106, 115, 111, 110, 95, 117, 112, 108, 111, 97, 100>>
StrTextUpload == <<116, 101, 120, 116, 95, 117, 112, 108, 111, 97, 100>>
StrRedacted == <<91, 82, 69, 68, 65, 67, 84, 69, 68, 93>>
\* The path separator '/' and the '-' of the phone patterns.
Slash == 47
Dash == 45

\* ------------------------------------------------------------------- UTF-8

\* str.encode("utf-8") of one code point (a lone surrogate raises; see EncodeOk).
Utf8Char(c) ==
  IF c < 128 THEN <<c>>
  ELSE IF c < 2048 THEN <<192 + (c \div 64), 128 + (c % 64)>>
  ELSE IF c < 65536 THEN <<224 + (c \div 4096), 128 + ((c \div 64) % 64), 128 + (c % 64)>>
  ELSE <<240 + (c \div 262144), 128 + ((c \div 4096) % 64),
         128 + ((c \div 64) % 64), 128 + (c % 64)>>

\* (In the recursive definitions below, x \in {e} binds x to the value of e, so
\* that e is evaluated once however often the definition reads it.)
Utf8Encode(str) ==
  CHOOSE r \in {LET enc[i \in 1..(Len(s) + 1)] ==
                      IF i > Len(s) THEN <<>> ELSE Utf8Char(s[i]) \o enc[i + 1]
                IN enc[1] : s \in {str}} : TRUE

\* Whether str.encode("utf-8") succeeds: no lone surrogate in the string.
EncodeOk(s) == \A i \in 1..Len(s) : ~(s[i] \in 55296..57343)

IsCont(b) == b \in 128..191

\* The length of the UTF-8 sequence a lead byte announces (0: not a lead byte).
SeqLen(b0) ==
  IF b0 < 128 THEN 1
  ELSE IF b0 \in 194..223 THEN 2
  ELSE IF b0 \in 224..239 THEN 3
  ELSE IF b0 \in 240..244 THEN 4
  ELSE 0

\* Whether a well-formed UTF-8 sequence starts at position i of b (strict: overlong
\* forms, surrogates and truncated sequences are not).
WellFormedAt(b, i) ==
  /\ SeqLen(b[i]) > 0
  /\ i + SeqLen(b[i]) - 1 <= Len(b)
  /\ \A k \in 1..(SeqLen(b[i]) - 1) : IsCont(b[i + k])
  /\ (b[i] = 224 => b[i + 1] >= 160)
  /\ (b[i] = 237 => b[i + 1] <= 159)
  /\ (b[i] = 240 => b[i + 1] >= 144)
  /\ (b[i] = 244 => b[i + 1] <= 143)

\* The code point of the sequence at position i of b.
CodePointAt(b, i) ==
  IF SeqLen(b[i]) = 1 THEN b[i]
  ELSE IF SeqLen(b[i]) = 2 THEN (b[i] - 192) * 64 + (b[i + 1] - 128)
  ELSE IF SeqLen(b[i]) = 3
    THEN (b[i] - 224) * 4096 + (b[i + 1] - 128) * 64 + (b[i + 2] - 128)
  ELSE (b[i] - 240) * 262144 + (b[i + 1] - 128) * 4096
       + (b[i + 2] - 128) * 64 + (b[i + 3] - 128)

\* bytes.decode("utf-8"): the code points, or DecodeError for bytes that are not
\* UTF-8.
Utf8Decode(bytes) ==
  CHOOSE r \in {LET valid[i \in 1..(Len(b) + 1)] ==
                      i > Len(b) \/ (WellFormedAt(b, i) /\ valid[i + SeqLen(b[i])])
                    points[i \in 1..(Len(b) + 1)] ==
                      IF i > Len(b) THEN <<>>
                      ELSE <<CodePointAt(b, i)>> \o points[i + SeqLen(b[i])]
                IN IF valid[1] THEN points[1] ELSE DecodeError : b \in {bytes}} : TRUE

\* ------------------------------------------------------------------ base64

\* The padding character '=' of base64 text.
B64Pad == 64

\* The host's base64 encoding of a Pub/Sub message body into event["data"].
B64Encode(bytes) ==
  CHOOSE r \in {LET enc[i \in 1..(Len(b) + 1)] ==
                      IF i > Len(b) THEN <<>>
                      ELSE IF i = Len(b)
                        THEN <<b[i] \div 4, (b[i] % 4) * 16, B64Pad, B64Pad>>
                      ELSE IF i + 1 = Len(b)
                        THEN <<b[i] \div 4, (b[i] % 4) * 16 + (b[i + 1] \div 16),
                               (b[i + 1] % 16) * 4, B64Pad>>
                      ELSE <<b[i] \div 4, (b[i] % 4) * 16 + (b[i + 1] \div 16),
                             (b[i + 1] % 16) * 4 + (b[i + 2] \div 64), b[i + 2] % 64>>
                           \o enc[i + 3]
                IN enc[1] : b \in {bytes}} : TRUE

\* base64.b64decode of well-padded base64 text.
B64Decode(text) ==
  CHOOSE r \in {LET dec[i \in 1..(Len(t) + 1)] ==
                      IF i + 3 > Len(t) THEN <<>>
                      ELSE IF t[i + 2] = B64Pad THEN <<t[i] * 4 + (t[i + 1] \div 16)>>
                      ELSE IF t[i + 3] = B64Pad
                        THEN <<t[i] * 4 + (t[i + 1] \div 16),
                               (t[i + 1] % 16) * 16 + (t[i + 2] \div 4)>>
                      ELSE <<t[i] * 4 + (t[i + 1] \div 16),
                             (t[i + 1] % 16) * 16 + (t[i + 2] \div 4),
                             (t[i + 2] % 4) * 64 + t[i + 3]>>
                           \o dec[i + 4]
                IN dec[1] : t \in {text}} : TRUE

\* ---------------------------------------------------------------- redactor

\* What \d matches in a str pattern: the ASCII digits and, of the other decimal
\* digits of Unicode, the Arabic-Indic ones.
IsDigit(c) == c \in 48..57 \/ c \in 1632..1641

\* What \w matches: digits, letters (ASCII and Latin-1) and the underscore.
IsWord(c) ==
  \/ IsDigit(c)
  \/ c \in 65..90
  \/ c \in 97..122
  \/ c = 95
  \/ c \in {170, 181, 186}
  \/ (c \in 192..255 /\ c # 215 /\ c # 247)

\* \b between position k and k + 1 of s (k = 0: the start, k = Len(s): the end).
WordBoundary(s, k) ==
  (k >= 1 /\ IsWord(s[k])) # (k + 1 <= Len(s) /\ IsWord(s[k + 1]))

\* r"\d{3}-\d{4}" and r"\d{3}-\d{3}-\d{4}" as sequences of classes.
PatternA == <<"d", "d", "d", "-", "d", "d", "d", "d">>
PatternB == <<"d", "d", "d", "-", "d", "d", "d", "-", "d", "d", "d", "d">>

\* Whether \b pat \b matches s at position p.
MatchAt(s, pat, p) ==
  /\ p + Len(pat) - 1 <= Len(s)
  /\ \A j \in 1..Len(pat) :
       IF pat[j] = "d" THEN IsDigit(s[p + j - 1]) ELSE s[p + j - 1] = Dash
  /\ WordBoundary(s, p - 1)
  /\ WordBoundary(s, p + Len(pat) - 1)

\* A mutant of Sub: only the first match is replaced (count=1).
SubFirstOnly(text, pat) ==
  CHOOSE r \in {LET sub[p \in 1..(Len(s) + 1)] ==
                      IF p > Len(s) THEN <<>>
                      ELSE IF MatchAt(s, pat, p)
                        THEN StrRedacted \o SubSeq(s, p + Len(pat), Len(s))
                      ELSE <<s[p]>> \o sub[p + 1]
                IN sub[1] : s \in {text}} : TRUE

\* re.sub(r"\b" + pat + r"\b", "[REDACTED]", text): the leftmost matches, not
\* overlapping, are replaced.
Sub(text, pat) ==
  CHOOSE r \in {LET sub[p \in 1..(Len(s) + 1)] ==
                      IF p > Len(s) THEN <<>>
                      ELSE IF MatchAt(s, pat, p) THEN StrRedacted \o sub[p + Len(pat)]
                      ELSE <<s[p]>> \o sub[p + 1]
                IN sub[1] : s \in {text}} : TRUE

_redact_sensitive(text) == Sub(Sub(text, PatternA), PatternB)

\* ------------------------------------------------------ processing simulator

\* DELAY_PER_CHAR and MAX_TOTAL_SLEEP, in hundredths of a second.
DelayPerChar == 5
MaxTotalSleep == 5500

\* The duration _simulate_heavy_processing sleeps for a text of length n.
SleepDuration(n) == Min(DelayPerChar * n, MaxTotalSleep)

\* ------------------------------------------------------------ document path

\* The marker of the ValueError a reference with a wrong number of path
\* elements raises.
PathError == <<>>

\* str.split("/").
Split(str) ==
  CHOOSE r \in {LET split[i \in 1..(Len(s) + 1)] ==
                      IF \E k \in i..Len(s) : s[k] = Slash
                      THEN LET k == CHOOSE k \in i..Len(s) :
                                      s[k] = Slash /\ \A j \in i..(k - 1) : s[j] # Slash
                           IN <<SubSeq(s, i, k - 1)>> \o split[k + 1]
                      ELSE <<SubSeq(s, i, Len(s))>>
                IN split[1] : s \in {str}} : TRUE

\* "/".join(path).
Join(segments) ==
  CHOOSE r \in {LET join[i \in 1..(Len(path) + 1)] ==
                      IF i > Len(path) THEN <<>>
                      ELSE IF i = Len(path) THEN path[i]
                      ELSE path[i] \o <<Slash>> \o join[i + 1]
                IN join[1] : path \in {segments}} : TRUE

\* CollectionReference.document(id): the collection's path and the id are joined by
\* '/' and split again, and a document path must have an even number of elements.
DocumentRef(collection, id) ==
  LET path == Split(Join(collection \o <<id>>))
  IN IF Len(path) % 2 = 0 THEN path ELSE PathError

\* A mutant of DocRef: one flat collection, keyed by the log id alone.
DocRefFlat(tenant_id, log_id) == DocumentRef(<<StrProcessedLogs>>, log_id)

\* The reference process_log writes to:
\* db.collection("tenants").document(tenant_id).collection("processed_logs").document(log_id).
DocRef(tenant_id, log_id) ==
  LET tenant == DocumentRef(<<StrTenants>>, tenant_id)
  IN IF tenant = PathError THEN PathError
     ELSE DocumentRef(tenant \o <<StrProcessedLogs>>, log_id)

\* ------------------------------------------------------- transport messages

\* The attribute map of a message: the attributes that are given (not None).
Attributes(tenant_id, log_id, source) ==
  LET given == [tenant_id |-> tenant_id, log_id |-> log_id, source |-> source]
  IN [k \in {n \in {"tenant_id", "log_id", "source"} : given[n] # None} |-> given[k]]

\* A Pub/Sub message: the body bytes and the attribute map.
Message(tenant_id, log_id, source, data) ==
  [data |-> data, attributes |-> Attributes(tenant_id, log_id, source)]

\* Identifiers "a", "b", "x", and identifiers that hold the path separator:
\* "a/b", "a/processed_logs/x", "x/processed_logs/x".
IdA == <<97>>
IdB == <<98>>
IdX == <<120>>
IdAB == <<97, Slash, 98>>
IdANested == IdA \o <<Slash>> \o StrProcessedLogs \o <<Slash>> \o IdX
IdXNested == IdX \o <<Slash>> \o StrProcessedLogs \o <<Slash>> \o IdX

\* Texts "555-0199", "a" and "call 555-0199".
TextPhone == <<53, 53, 53, Dash, 48, 49, 57, 57>>
TextA == <<97>>
TextCall == <<99, 97, 108, 108, 32>> \o TextPhone

\* The messages a publisher may hand to the topic the worker is triggered by.
TransportMessages ==
  \* well-formed messages: two tenants with the same log id, two messages with
  \* the same key, a message with no source attribute
  {Message(IdA, IdX, StrJsonUpload, Utf8Encode(TextPhone)),
   Message(IdB, IdX, None, Utf8Encode(TextPhone)),
   Message(IdA, IdX, StrTextUpload, Utf8Encode(TextA))}
  \* identity missing or empty
  \cup {Message(None, IdX, StrJsonUpload, Utf8Encode(TextA)),
        Message(<<>>, IdX, StrJsonUpload, Utf8Encode(TextA)),
        Message(IdA, None, StrJsonUpload, Utf8Encode(TextA)),
        Message(IdA, <<>>, StrTextUpload, Utf8Encode(TextA))}
  \* empty body, with and without attributes
  \cup {Message(IdA, IdX, StrJsonUpload, <<>>), Message(None, None, None, <<>>)}
  \* a body that is not UTF-8
  \cup {Message(IdA, IdX, StrJsonUpload, <<255>>)}
  \* identifiers that hold '/'
  \cup {Message(IdANested, IdX, StrJsonUpload, Utf8Encode(TextA)),
        Message(IdA, IdXNested, StrJsonUpload, Utf8Encode(TextPhone)),
        Message(IdAB, IdX, StrJsonUpload, Utf8Encode(TextA))}

\* The events the host may build from a message: the body base64-encoded under
\* "data", the attribute map under "attributes"; an empty body or an empty map
\* may also be left out of the event.
EventsOf(m) ==
  LET full == [data |-> B64Encode(m.data), attributes |-> m.attributes]
  IN {[k \in keys |-> full[k]] :
        keys \in {ks \in SUBSET {"data", "attributes"} :
                    /\ ("data" \notin ks => m.data = <<>>)
                    /\ ("attributes" \notin ks => DOMAIN m.attributes = {})}}

\* dict.get(key, default).
Get(d, key, default) == IF key \in DOMAIN d THEN d[key] ELSE default

\* ------------------------------------------------------------ intake: values

\* The marker of a key that a JSON object or the headers do not hold.
Absent == <<-9>>

\* isinstance(v, str).
IsStr(v) == \A k \in 1..Len(v) : v[k] >= 0

\* `sub in s` for strings.
Contains(s, sub) ==
  \E p \in 1..(Len(s) - Len(sub) + 1) : SubSeq(s, p, p + Len(sub) - 1) = sub

\* "POST", "GET"; "application/json", "text/plain", "; charset=utf-8",
\* "application/xml".
StrPost == <<80, 79, 83, 84>>
StrGet == <<71, 69, 84>>
CtJson ==
  <<97, 112, 112, 108, 105, 99, 97, 116, 105, 111, 110, 47, 106, 115, 111, 110>>
CtTextPlain == <<116, 101, 120, 116, 47, 112, 108, 97, 105, 110>>
CtCharset == <<59, 32, 99, 104, 97, 114, 115, 101, 116, 61, 117, 116, 102, 45, 56>>
CtXml == <<97, 112, 112, 108, 105, 99, 97, 116, 105, 111, 110, 47, 120, 109, 108>>

\* The messages of the BadRequests of lines 71, 78, 80, 101 and 174, and of the
\* responses of lines 165 and 190.
MsgInvalidJson ==
  <<73, 110, 118, 97, 108, 105, 100, 32, 74, 83, 79, 78, 32, 98, 111, 100, 121>>
MsgTenantRequired ==
  <<70, 105, 101, 108, 100, 32, 39, 116, 101, 110, 97, 110, 116, 95, 105, 100, 39,
    32, 105, 115, 32, 114, 101, 113, 117, 105, 114, 101, 100, 32, 97, 110, 100, 32,
    109, 117, 115, 116, 32, 98, 101, 32, 97, 32, 115, 116, 114, 105, 110, 103>>
MsgTextRequired ==
  <<70, 105, 101, 108, 100, 32, 39, 116, 101, 120, 116, 39, 32, 105, 115, 32, 114,
    101, 113, 117, 105, 114, 101, 100, 32, 97, 110, 100, 32, 109, 117, 115, 116, 32,
    98, 101, 32, 97, 32, 115, 116, 114, 105, 110, 103>>
MsgHeaderRequired ==
  <<72, 101, 97, 100, 101, 114, 32, 39, 88, 45, 84, 101, 110, 97, 110, 116, 45, 73,
    68, 39, 32, 105, 115, 32, 114, 101, 113, 117, 105, 114, 101, 100, 32, 102, 111,
    114, 32, 116, 101, 120, 116, 47, 112, 108, 97, 105, 110, 32, 112, 97, 121, 108,
    111, 97, 100, 115>>
MsgUnsupported ==
  <<85, 110, 115, 117, 112, 112, 111, 114, 116, 101, 100, 32, 67, 111, 110, 116, 101,
    110, 116, 45, 84, 121, 112, 101, 46, 32, 85, 115, 101, 32, 97, 112, 112, 108,
    105, 99, 97, 116, 105, 111, 110, 47, 106, 115, 111, 110, 32, 111, 114, 32, 116,
    101, 120, 116, 47, 112, 108, 97, 105, 110, 46>>
MsgMethodNotAllowed ==
  <<77, 101, 116, 104, 111, 100, 32, 110, 111, 116, 32, 97, 108, 108, 111, 119, 101,
    100>>
MsgInternal ==
  <<73, 110, 116, 101, 114, 110, 97, 108, 32, 115, 101, 114, 118, 101, 114, 32, 101,
    114, 114, 111, 114>>

\* The messages of the RuntimeErrors of lines 52 and 45.
MsgTopicUnset ==
  <<80, 85, 66, 83, 85, 66, 95, 84, 79, 80, 73, 67, 32, 101, 110, 118, 105, 114, 111,
    110, 109, 101, 110, 116, 32, 118, 97, 114, 105, 97, 98, 108, 101, 32, 109, 117,
    115, 116, 32, 98, 101, 32, 115, 101, 116>>
MsgProjectUnset ==
  <<71, 67, 80, 95, 80, 82, 79, 74, 69, 67, 84, 32, 111, 114, 32, 71, 79, 79, 71, 76,
    69, 95, 67, 76, 79, 85, 68, 95, 80, 82, 79, 74, 69, 67, 84, 32, 101, 110, 118,
    105, 114, 111, 110, 109, 101, 110, 116, 32, 118, 97, 114, 105, 97, 98, 108, 101,
    32, 109, 117, 115, 116, 32, 98, 101, 32, 115, 101, 116>>

\* str(exc) of the exceptions the libraries raise on the inputs below:
\* AttributeError of [].get, UnicodeDecodeError of b"\xff".decode("utf-8"),
\* UnicodeEncodeError of "\ud800".encode("utf-8"), TypeError of publish() with
\* an attribute that is not a string.
MsgNoGet ==
  <<39, 108, 105, 115, 116, 39, 32, 111, 98, 106, 101, 99, 116, 32, 104, 97, 115, 32,
    110, 111, 32, 97, 116, 116, 114, 105, 98, 117, 116, 101, 32, 39, 103, 101, 116,
    39>>
MsgCantDecode ==
  <<39, 117, 116, 102, 45, 56, 39, 32, 99, 111, 100, 101, 99, 32, 99, 97, 110, 39,
    116, 32, 100, 101, 99, 111, 100, 101, 32, 98, 121, 116, 101, 32, 48, 120, 102,
    102, 32, 105, 110, 32, 112, 111, 115, 105, 116, 105, 111, 110, 32, 48, 58, 32,
    105, 110, 118, 97, 108, 105, 100, 32, 115, 116, 97, 114, 116, 32, 98, 121, 116,
    101>>
MsgCantEncode ==
  <<39, 117, 116, 102, 45, 56, 39, 32, 99, 111, 100, 101, 99, 32, 99, 97, 110, 39,
    116, 32, 101, 110, 99, 111, 100, 101, 32, 99, 104, 97, 114, 97, 99, 116, 101,
    114, 32, 39, 92, 117, 100, 56, 48, 48, 39, 32, 105, 110, 32, 112, 111, 115, 105,
    116, 105, 111, 110, 32, 48, 58, 32, 115, 117, 114, 114, 111, 103, 97, 116, 101,
    115, 32, 110, 111, 116, 32, 97, 108, 108, 111, 119, 101, 100>>
MsgAttributeType ==
  <<65, 108, 108, 32, 97, 116, 116, 114, 105, 98, 117, 116, 101, 115, 32, 98, 101,
    105, 110, 103, 32, 112, 117, 98, 108, 105, 115, 104, 101, 100, 32, 116, 111, 32,
    80, 117, 98, 47, 83, 117, 98, 32, 109, 117, 115, 116, 32, 98, 101, 32, 115, 101,
    110, 116, 32, 97, 115, 32, 116, 101, 120, 116, 32, 115, 116, 114, 105, 110, 103,
    115, 46>>

\* "error", "detail", "status", "accepted", "tenant_id", "log_id".
StrError == <<101, 114, 114, 111, 114>>
StrDetail == <<100, 101, 116, 97, 105, 108>>
StrStatus == <<115, 116, 97, 116, 117, 115>>
StrAccepted == <<97, 99, 99, 101, 112, 116, 101, 100>>
StrTenantId == <<116, 101, 110, 97, 110, 116, 95, 105, 100>>
StrLogId == <<108, 111, 103, 95, 105, 100>>

\* "projects/", "/topics/" of PublisherClient.topic_path; a topic id "logs" and a
\* project id "demo".
StrProjects == <<112, 114, 111, 106, 101, 99, 116, 115, 47>>
StrTopics == <<47, 116, 111, 112, 105, 99, 115, 47>>
StrTopic == <<108, 111, 103, 115>>
StrProject == <<100, 101, 109, 111>>

\* str(uuid.uuid4()): "0000000k-0000-4000-8000-000000000000".
UuidHead == <<48, 48, 48, 48, 48, 48, 48>>
UuidTail ==
  <<45, 48, 48, 48, 48, 45, 52, 48, 48, 48, 45, 56, 48, 48, 48, 45, 48, 48, 48, 48,
    48, 48, 48, 48, 48, 48, 48, 48>>
Uuid(k) == UuidHead \o <<48 + k>> \o UuidTail

\* --------------------------------------------------------------- json.dumps

HexDigit(d) == IF d < 10 THEN 48 + d ELSE 87 + d

\* \uXXXX.
Hex4(n) ==
  <<92, 117, HexDigit(n \div 4096), HexDigit((n \div 256) % 16),
    HexDigit((n \div 16) % 16), HexDigit(n % 16)>>

\* One character of a string literal as json.dumps (ensure_ascii) writes it.
JsonEscape(c) ==
  IF c = 34 THEN <<92, 34>>
  ELSE IF c = 92 THEN <<92, 92>>
  ELSE IF c = 10 THEN <<92, 110>>
  ELSE IF c = 13 THEN <<92, 114>>
  ELSE IF c = 9 THEN <<92, 116>>
  ELSE IF c = 8 THEN <<92, 98>>
  ELSE IF c = 12 THEN <<92, 102>>
  ELSE IF c \in 32..126 THEN <<c>>
  ELSE IF c < 65536 THEN Hex4(c)
  ELSE Hex4(55296 + ((c - 65536) \div 1024)) \o Hex4(56320 + ((c - 65536) % 1024))

\* json.dumps of a str.
JsonDumpsStr(str) ==
  CHOOSE r \in {LET esc[i \in 1..(Len(s) + 1)] ==
                      IF i > Len(s) THEN <<34>> ELSE JsonEscape(s[i]) \o esc[i + 1]
                IN <<34>> \o esc[1] : s \in {str}} : TRUE

\* json.dumps of a dict of strings, given as the sequence of its items.
JsonDumps(body) ==
  CHOOSE r \in {LET items[i \in 1..(Len(b) + 1)] ==
                      IF i > Len(b) THEN <<125>>
                      ELSE (IF i > 1 THEN <<44, 32>> ELSE <<>>)
                           \o JsonDumpsStr(b[i][1]) \o <<58, 32>> \o JsonDumpsStr(b[i][2])
                           \o items[i + 1]
                IN <<123>> \o items[1] : b \in {body}} : TRUE

\* ------------------------------------------------------------- intake: requests

\* What request.get_json(silent=True) returns: None for a body that is not JSON
\* (or is the JSON null), a dict for a JSON object, a list for a JSON array.
JsonNull == [type |-> "NoneType"]
JsonList == [type |-> "list"]
JsonDict(fields) == [type |-> "dict", fields |-> fields]

\* The fields of a JSON object: the keys that are given.
JsonFields(tenant_id, log_id, text) ==
  LET given == [tenant_id |-> tenant_id, log_id |-> log_id, text |-> text]
  IN [k \in {n \in {"tenant_id", "log_id", "text"} : given[n] # Absent} |-> given[k]]

\* The headers of a request: the ones that are given.
Headers(content_type, tenant_id) ==
  LET given == ("Content-Type" :> content_type) @@ ("X-Tenant-ID" :> tenant_id)
  IN [k \in {n \in {"Content-Type", "X-Tenant-ID"} : given[n] # Absent} |-> given[k]]

\* An HTTP request: method, headers, the parsed JSON body and the body bytes.
Request(method, headers, json, data) ==
  [method |-> method, headers |-> headers, json |-> json, data |-> data]

\* The code point U+00E9 as a tenant id, and a lone surrogate as a text ("\ud800"
\* in a JSON body).
IdEAcute == <<233>>
TextSurrogate == <<55296>>

\* JSON requests: every combination of tenant_id, log_id and text being absent,
\* null, empty, a string or a number, and bodies that are no JSON object.
JsonRequests ==
  {Request(StrPost, Headers(ct, Absent), json, <<>>) :
     ct \in {CtJson, CtJson \o CtCharset},
     json \in {JsonNull, JsonList}
              \cup {JsonDict(JsonFields(t, l, x)) :
                      t \in {Absent, None, <<>>, IdA, IdAB, IdEAcute, JsonInt(5)},
                      l \in {Absent, None, <<>>, IdX, JsonInt(0), JsonInt(5)},
                      x \in {Absent, <<>>, TextA, TextPhone, TextSurrogate, JsonInt(5)}}}

\* Plain-text requests: the tenant header absent, empty or given; the body empty,
\* UTF-8 or not UTF-8.
TextRequests ==
  {Request(StrPost, Headers(ct, h), JsonNull, d) :
     ct \in {CtTextPlain, CtTextPlain \o CtCharset},
     h \in {Absent, <<>>, IdA},
     d \in {<<>>, Utf8Encode(TextPhone), Utf8Encode(TextCall), Utf8Encode(IdEAcute),
            <<255>>}}

\* Requests of another content type or with none, and requests that are not POSTs.
OtherRequests ==
  {Request(method, Headers(ct, IdA), JsonDict(JsonFields(IdA, IdX, TextA)),
           Utf8Encode(TextA)) :
     method \in {StrPost, StrGet}, ct \in {Absent, <<>>, CtXml, CtJson, CtTextPlain}}

Requests == JsonRequests \cup TextRequests \cup OtherRequests

\* os.environ of the intake function: a deployment with the variables set, and
\* deployments that leave some unset or empty.
Deployed == ("PUBSUB_TOPIC" :> StrTopic) @@ ("GCP_PROJECT" :> StrProject)
Environments ==
  {Deployed,
   ("PUBSUB_TOPIC" :> StrTopic) @@ ("GOOGLE_CLOUD_PROJECT" :> StrProject),
   ("PUBSUB_TOPIC" :> StrTopic) @@ ("GCP_PROJECT" :> <<>>),
   ("PUBSUB_TOPIC" :> <<>>) @@ ("GCP_PROJECT" :> StrProject),
   ("GCP_PROJECT" :> StrProject)}

\* ------------------------------------------------------------ intake: ingest

\* Exceptions: BadRequest (lines 28-32) and the others.
BadRequest(message) == [type |-> "BadRequest", message |-> message, status_code |-> 400]
Exception(type, message) == [type |-> type, message |-> message, status_code |-> 0]
NoException == Exception("", <<>>)

\* No normalized message.
NotNormalized == [tenant_id |-> None, log_id |-> None, text |-> None, source |-> None]

\* How a normalizer ends: it returns a normalized message or raises.
Returned(value) == [raised |-> FALSE, value |-> value, exc |-> NoException]
Raised(exc) == [raised |-> TRUE, value |-> NotNormalized, exc |-> exc]

\* A mutant of _normalize_json: the check of `text` is left out.
_normalize_json_NoTextCheck(request, uuid) ==
  LET data == request.json
  IN IF data.type = "NoneType" THEN Raised(BadRequest(MsgInvalidJson))
     ELSE IF data.type # "dict" THEN Raised(Exception("AttributeError", MsgNoGet))
     ELSE LET tenant_id == Get(data.fields, "tenant_id", None)
              given == Get(data.fields, "log_id", None)
          IN IF Falsy(tenant_id) \/ ~IsStr(tenant_id)
             THEN Raised(BadRequest(MsgTenantRequired))
             ELSE Returned([tenant_id |-> tenant_id,
                            log_id |-> IF Falsy(given) THEN uuid ELSE given,
                            text |-> Get(data.fields, "text", None),
                            source |-> StrJsonUpload])

\* _normalize_json(request), with uuid what str(uuid.uuid4()) returns.
_normalize_json(request, uuid) ==
  LET data == request.json
  IN IF data.type = "NoneType" THEN Raised(BadRequest(MsgInvalidJson))
     ELSE IF data.type # "dict" THEN Raised(Exception("AttributeError", MsgNoGet))
     ELSE LET tenant_id == Get(data.fields, "tenant_id", None)
              given == Get(data.fields, "log_id", None)
              log_id == IF Falsy(given) THEN uuid ELSE given
              text == Get(data.fields, "text", None)
          IN IF Falsy(tenant_id) \/ ~IsStr(tenant_id)
             THEN Raised(BadRequest(MsgTenantRequired))
             ELSE IF Falsy(text) \/ ~IsStr(text)
             THEN Raised(BadRequest(MsgTextRequired))
             ELSE Returned([tenant_id |-> tenant_id, log_id |-> log_id, text |-> text,
                            source |-> StrJsonUpload])

\* _normalize_text(request), with uuid what str(uuid.uuid4()) returns.
_normalize_text(request, uuid) ==
  LET tenant_id == Get(request.headers, "X-Tenant-ID", None)
      text == Utf8Decode(request.data)
  IN IF Falsy(tenant_id) THEN Raised(BadRequest(MsgHeaderRequired))
     ELSE IF text = DecodeError
     THEN Raised(Exception("UnicodeDecodeError", MsgCantDecode))
     ELSE Returned([tenant_id |-> tenant_id, log_id |-> uuid, text |-> text,
                    source |-> StrTextUpload])

\* _get_publisher(): the client, built when the global is None (0).
_get_publisher(publisher) == IF publisher = 0 THEN 1 ELSE publisher

\* PublisherClient.topic_path(project_id, topic_id).
TopicPath(project_id, topic_id) == StrProjects \o project_id \o StrTopics \o topic_id

\* _publish(normalized) in the environment env: the exception it raises, if any,
\* and the messages it has handed to the client.
_publish(normalized, env) ==
  LET topic_id == Get(env, "PUBSUB_TOPIC", None)
      gcp_project == Get(env, "GCP_PROJECT", None)
      project_id == IF Falsy(gcp_project) THEN Get(env, "GOOGLE_CLOUD_PROJECT", None)
                    ELSE gcp_project
      raised(exc) == [raised |-> TRUE, exc |-> exc, handed |-> <<>>]
  IN IF Falsy(topic_id) THEN raised(Exception("RuntimeError", MsgTopicUnset))
     ELSE IF Falsy(project_id) THEN raised(Exception("RuntimeError", MsgProjectUnset))
     ELSE IF ~EncodeOk(normalized.text)
     THEN raised(Exception("UnicodeEncodeError", MsgCantEncode))
     ELSE IF \E k \in {"tenant_id", "log_id", "source"} : ~IsStr(normalized[k])
     THEN raised(Exception("TypeError", MsgAttributeType))
     ELSE [raised |-> FALSE, exc |-> NoException,
           handed |-> <<[topic |-> TopicPath(project_id, topic_id),
                         message |-> Message(normalized.tenant_id, normalized.log_id,
                                             normalized.source,
                                             Utf8Encode(normalized.text))]>>]

\* _make_response(body, status_code).
_make_response(body, status_code) ==
  [body |-> JsonDumps(body), status_code |-> status_code,
   headers |-> ("Content-Type" :> CtJson)]

\* No response yet.
NoResponse == [body |-> <<>>, status_code |-> 0, headers |-> ("Content-Type" :> <<>>)]

\* ingest(request) in the environment env with the client global publisher: the
\* response, the normalized message (if a normalizer returned one), the messages
\* handed to the client and the client global afterwards.
ingest(request, uuid, env, publisher) ==
  IF request.method # StrPost
  THEN [response |-> _make_response(<<<<StrError, MsgMethodNotAllowed>>>>, 405),
        normalized |-> NotNormalized, handed |-> <<>>, publisher |-> publisher]
  ELSE
    LET given == Get(request.headers, "Content-Type", <<>>)
        content_type == IF Falsy(given) THEN <<>> ELSE given
        n == IF Contains(content_type, CtJson) THEN _normalize_json(request, uuid)
             ELSE IF Contains(content_type, CtTextPlain) THEN _normalize_text(request, uuid)
             ELSE Raised(BadRequest(MsgUnsupported))
        p == _publish(n.value, env)
        exc == IF n.raised THEN n.exc ELSE p.exc
    IN [response |->
          IF ~n.raised /\ ~p.raised
          THEN _make_response(<<<<StrStatus, StrAccepted>>,
                                <<StrTenantId, n.value.tenant_id>>,
                                <<StrLogId, n.value.log_id>>>>, 202)
          ELSE IF exc.type = "BadRequest"
          THEN _make_response(<<<<StrError, exc.message>>>>, exc.status_code)
          ELSE _make_response(<<<<StrError, MsgInternal>>, <<StrDetail, exc.message>>>>, 500),
        normalized |-> n.value,
        handed |-> IF n.raised THEN <<>> ELSE p.handed,
        publisher |-> IF n.raised THEN publisher ELSE _get_publisher(publisher)]

\* ------------------------------------------------------------------- state

VARIABLES
  channel,   \* the messages handed to the channel
  acked,     \* the messages the host has acknowledged
  inv,       \* per worker: the process_log invocation it runs
  store,     \* the document store: document path -> fields
  _db,       \* the worker's lazily built storage client (0: None)
  environ,   \* os.environ of the intake function
  _publisher,\* the intake function's lazily built Pub/Sub client (0: None)
  request,   \* the request ingest was last called with
  normalized,\* the message the normalizer returned for it
  handed,    \* the messages ingest handed to the Pub/Sub client for it
  response,  \* the response ingest returned for it
  redact_text,    \* the text _redact_sensitive is called with directly
  redact_results, \* what it returned, and what it returned for its own results
  getting,   \* per thread: where it is in _get_db or _get_publisher
  built,     \* per getter: the clients constructed and the stores to its global
  sleep_text,    \* the text _simulate_heavy_processing is called with directly
  sleep_environ, \* os.environ of the worker when it is
  sleep_slept    \* the duration it passed to time.sleep (-1: not called)

workerVars == <<channel, acked, inv, store, _db>>
intakeVars == <<environ, _publisher, request, normalized, handed, response>>
clientVars == <<getting, built>>
sleepVars == <<sleep_text, sleep_environ, sleep_slept>>
helperVars == <<redact_text, redact_results, clientVars, sleepVars>>
vars == <<channel, acked, inv, store, _db,
          environ, _publisher, request, normalized, handed, response,
          redact_text, redact_results, getting, built,
          sleep_text, sleep_environ, sleep_slept>>

Workers == 1..MaxWorkers
Times == 0..MaxTime

\* {} as a dict.
EmptyMap == [k \in {} |-> None]

\* A worker that runs no invocation.
IdleInv ==
  [pc |-> "idle", msg |-> Message(None, None, None, <<>>), event |-> EmptyMap,
   original_text |-> None, tenant_id |-> None, log_id |-> None, source |-> None,
   slept |-> -1, wrote |-> FALSE, error |-> "", steps |-> <<>>]

\* No message published, no invocation running, an empty store.
WorkerInit ==
  /\ channel = {}
  /\ acked = {}
  /\ inv = [w \in Workers |-> IdleInv]
  /\ store = EmptyMap
  /\ _db = 0

\* No request being handled.
NoRequest == Request(<<>>, Headers(Absent, Absent), JsonNull, <<>>)

\* No request handled yet.
IntakeInit ==
  /\ _publisher = 0
  /\ request = NoRequest
  /\ normalized = NotNormalized
  /\ handed = <<>>
  /\ response = NoResponse

\* The threads of one process, and the two functions that hand out its client.
Threads == 1..MaxWorkers
Getters == {"_get_db", "_get_publisher"}

\* A thread that is in neither function; got is the client it was last handed.
NotGetting(got) == [pc |-> "idle", fn |-> "", client |-> 0, got |-> got]

\* No thread has asked for a client, and none was constructed.
ClientInit ==
  /\ getting = [t \in Threads |-> NotGetting(0)]
  /\ built = [g \in Getters |-> [constructed |-> 0, assigned |-> 0]]

\* _simulate_heavy_processing not called directly.
NoSleepInit ==
  /\ sleep_text = <<>>
  /\ sleep_environ = EmptyMap
  /\ sleep_slept = -1

\* No helper function called directly.
HelperInit ==
  /\ redact_text = <<>>
  /\ redact_results = <<>>
  /\ ClientInit
  /\ NoSleepInit

Init == WorkerInit /\ IntakeInit /\ HelperInit /\ environ = Deployed

\* ------------------------------------------------------------- process_log

\* A mutant of Decoded: the identity check comes before the empty-body return.
DecodedIdentityFirst(i) ==
  LET message_data == Get(i.event, "data", <<>>)
      given == Get(i.event, "attributes", None)
      attributes == IF given = None \/ DOMAIN given = {} THEN EmptyMap ELSE given
      original_text == Utf8Decode(B64Decode(message_data))
      tenant_id == Get(attributes, "tenant_id", None)
      log_id == Get(attributes, "log_id", None)
  IN IF Falsy(tenant_id) \/ Falsy(log_id)
       THEN [i EXCEPT !.pc = "raised", !.error = "RuntimeError"]
     ELSE IF message_data = <<>> THEN [i EXCEPT !.pc = "returned"]
     ELSE IF original_text = DecodeError
       THEN [i EXCEPT !.pc = "raised", !.error = "UnicodeDecodeError"]
     ELSE [i EXCEPT !.pc = "simulate",
                    !.original_text = original_text, !.tenant_id = tenant_id,
                    !.log_id = log_id, !.source = Get(attributes, "source", StrUnknown)]

\* Lines 88-103: the empty-body return, the decoding of the body, the reading of
\* the attributes and the identity check. The invocation's next state.
Decoded(i) ==
  LET message_data == Get(i.event, "data", <<>>)
      given == Get(i.event, "attributes", None)
      attributes == IF given = None \/ DOMAIN given = {} THEN EmptyMap ELSE given
      original_text == Utf8Decode(B64Decode(message_data))
      tenant_id == Get(attributes, "tenant_id", None)
      log_id == Get(attributes, "log_id", None)
      source == Get(attributes, "source", StrUnknown)
  IN IF message_data = <<>> THEN [i EXCEPT !.pc = "returned"]
     ELSE IF original_text = DecodeError
       THEN [i EXCEPT !.pc = "raised", !.error = "UnicodeDecodeError",
                      !.steps = <<"decode">>]
     ELSE IF Falsy(tenant_id) \/ Falsy(log_id)
       THEN [i EXCEPT !.pc = "raised", !.error = "RuntimeError",
                      !.original_text = original_text, !.tenant_id = tenant_id,
                      !.log_id = log_id, !.source = source,
                      !.steps = <<"decode", "validate">>]
     ELSE [i EXCEPT !.pc = "simulate",
                    !.original_text = original_text, !.tenant_id = tenant_id,
                    !.log_id = log_id, !.source = source,
                    !.steps = <<"decode", "validate">>]

\* A mutant of Simulated: line 106 is left out.
SimulatedNot(i) == i

\* Line 106: _simulate_heavy_processing(original_text) has slept.
Simulated(i) ==
  [i EXCEPT !.slept = SleepDuration(Len(i.original_text)),
            !.steps = Append(i.steps, "simulate")]

\* Line 108: the text has been redacted.
Redacted(i) == [i EXCEPT !.steps = Append(i.steps, "redact")]

\* Lines 118-126: set() has been called.
SetCalled(i) == [i EXCEPT !.steps = Append(i.steps, "write")]

\* A mutant of Fields: the redacted text is written as original_text too.
FieldsRedactedOriginal(i, processed_at) ==
  [source |-> i.source, original_text |-> _redact_sensitive(i.original_text),
   modified_data |-> _redact_sensitive(i.original_text), processed_at |-> processed_at]

\* The fields process_log writes (lines 119-124).
Fields(i, processed_at) ==
  [source |-> i.source, original_text |-> i.original_text,
   modified_data |-> _redact_sensitive(i.original_text), processed_at |-> processed_at]

\* A mutant of MergeSet: set(fields) without merge=True replaces the document.
OverwriteSet(docs, ref, fields) ==
  [p \in DOMAIN docs \cup {ref} |-> IF p # ref THEN docs[p] ELSE fields]

\* DocumentReference.set(fields, merge=True): the document is created when absent,
\* the given fields are overwritten, its other fields are kept.
MergeSet(docs, ref, fields) ==
  [p \in DOMAIN docs \cup {ref} |->
     IF p # ref THEN docs[p]
     ELSE IF ref \notin DOMAIN docs THEN fields
     ELSE [k \in DOMAIN docs[ref] \cup DOMAIN fields |->
             IF k \in DOMAIN fields THEN fields[k] ELSE docs[ref][k]]]

\* ----------------------------------------------------------------- actions

\* The channel contents of one behaviour: one message or a pair of messages.
Scenarios == {c \in SUBSET TransportMessages : Cardinality(c) \in {1, 2}}

\* A publisher hands message m to the topic.
ChannelPublish(m) ==
  /\ m \notin channel
  /\ channel \cup {m} \in Scenarios
  /\ channel' = channel \cup {m}
  /\ UNCHANGED <<acked, inv, store, _db, intakeVars, helperVars>>

\* The host delivers an unacknowledged message m (a first delivery, a redelivery
\* after an error, or a duplicate of a message another worker is processing) to
\* the first free worker, and process_log(event, context) runs to its first
\* return, raise or to the sleep of line 106.
Deliver(w, m) ==
  /\ inv[w].pc = "idle"
  /\ \A v \in Workers : v < w => inv[v].pc # "idle"
  /\ m \in channel \ acked
  /\ \E event \in EventsOf(m) :
       inv' = [inv EXCEPT ![w] = Decoded([IdleInv EXCEPT !.pc = "start", !.msg = m,
                                                           !.event = event])]
  /\ UNCHANGED <<channel, acked, store, _db, intakeVars, helperVars>>

\* A mutant of Write: the source of a document that exists is left as it is.
WriteKeepsSource(w) ==
  /\ inv[w].pc = "simulate"
  /\ _db' = 1
  /\ LET i == Redacted(Simulated(inv[w]))
         ref == DocRef(i.tenant_id, i.log_id)
     IN IF ref = PathError
        THEN /\ inv' = [inv EXCEPT ![w] = [i EXCEPT !.pc = "raised", !.error = "ValueError"]]
             /\ store' = store
        ELSE \E processed_at \in Times :
               /\ store' = MergeSet(store, ref,
                                    IF ref \in DOMAIN store
                                    THEN [Fields(i, processed_at)
                                            EXCEPT !.source = store[ref].source]
                                    ELSE Fields(i, processed_at))
               /\ inv' = [inv EXCEPT ![w] = [SetCalled(i) EXCEPT !.pc = "returned",
                                                                 !.wrote = TRUE]]
  /\ UNCHANGED <<channel, acked, intakeVars, helperVars>>

\* The sleep of line 106 ends and lines 108-126 run, with a backend that accepts
\* the write: redaction, the timestamp, the client, the reference and the write.
\* A reference with a wrong number of path elements raises ValueError at line 115.
Write(w) ==
  /\ inv[w].pc = "simulate"
  /\ _db' = 1
  /\ LET i == Redacted(Simulated(inv[w]))
         ref == DocRef(i.tenant_id, i.log_id)
     IN IF ref = PathError
        THEN /\ inv' = [inv EXCEPT ![w] = [i EXCEPT !.pc = "raised", !.error = "ValueError"]]
             /\ store' = store
        ELSE \E processed_at \in Times :
               /\ store' = MergeSet(store, ref, Fields(i, processed_at))
               /\ inv' = [inv EXCEPT ![w] = [SetCalled(i) EXCEPT !.pc = "returned",
                                                                 !.wrote = TRUE]]
  /\ UNCHANGED <<channel, acked, intakeVars, helperVars>>

\* A mutant of WriteFails: the failure of set() is caught and process_log
\* returns normally.
WriteFailsSwallowed(w) ==
  /\ inv[w].pc = "simulate"
  /\ _db' = 1
  /\ DocRef(inv[w].tenant_id, inv[w].log_id) # PathError
  /\ inv' = [inv EXCEPT ![w] = [SetCalled(Redacted(Simulated(inv[w])))
                                  EXCEPT !.pc = "returned"]]
  /\ UNCHANGED <<channel, acked, store, intakeVars, helperVars>>

\* The same with a backend that does not accept the write: set() raises, and
\* process_log with it.
WriteFails(w) ==
  /\ inv[w].pc = "simulate"
  /\ _db' = 1
  /\ LET i == SetCalled(Redacted(Simulated(inv[w])))
         ref == DocRef(i.tenant_id, i.log_id)
     IN /\ ref # PathError
        /\ inv' = [inv EXCEPT ![w] = [i EXCEPT !.pc = "raised",
                                                !.error = "BackendUnavailable"]]
  /\ UNCHANGED <<channel, acked, store, intakeVars, helperVars>>

\* The host sees the invocation end: a normal return acknowledges the message,
\* an exception leaves it to be redelivered.
Release(w) ==
  /\ inv[w].pc \in {"returned", "raised"}
  /\ acked' = IF inv[w].pc = "returned" THEN acked \cup {inv[w].msg} ELSE acked
  /\ inv' = [inv EXCEPT ![w] = IdleInv]
  /\ UNCHANGED <<channel, store, _db, intakeVars, helperVars>>

\* The host calls ingest(request) on the free function instance, and ingest runs
\* from the call to the return of its response.
Ingest(r, uuid) ==
  /\ request = NoRequest
  /\ \E result \in {ingest(r, uuid, environ, _publisher)} :
       /\ request' = r
       /\ normalized' = result.normalized
       /\ handed' = result.handed
       /\ response' = result.response
       /\ _publisher' = result.publisher
  /\ UNCHANGED <<environ, workerVars, helperVars>>

\* The host sends the response to the caller; the instance, with its globals, is
\* free for the next request.
Reply ==
  /\ request # NoRequest
  /\ request' = NoRequest
  /\ normalized' = NotNormalized
  /\ handed' = <<>>
  /\ response' = NoResponse
  /\ UNCHANGED <<environ, _publisher, workerVars, helperVars>>

Next ==
  \/ \E m \in TransportMessages : ChannelPublish(m)
  \/ \E w \in Workers, m \in TransportMessages : Deliver(w, m)
  \/ \E w \in Workers : Write(w)
  \/ \E w \in Workers : WriteFails(w)
  \/ \E w \in Workers : Release(w)

Spec == Init /\ [][Next]_vars

\* One message in the channel, delivered and redelivered.
LiveNext ==
  \/ \E m \in TransportMessages : channel = {} /\ ChannelPublish(m)
  \/ \E w \in Workers, m \in TransportMessages : Deliver(w, m)
  \/ \E w \in Workers : Write(w)
  \/ \E w \in Workers : WriteFails(w)
  \/ \E w \in Workers : Release(w)

\* The scheduling the hosts give: an unacknowledged message is delivered again and
\* again, a finished invocation is seen by the host, and the storage backend does
\* not refuse writes for ever.
Fairness ==
  /\ SF_vars(\E w \in Workers, m \in TransportMessages : Deliver(w, m))
  /\ WF_vars(\E w \in Workers : Release(w))
  /\ SF_vars(\E w \in Workers : Write(w))

LiveSpec == Init /\ [][LiveNext]_vars /\ Fairness

\* The intake function alone, in any of the deployments, serving request after
\* request.
Uuids == {Uuid(k) : k \in 1..MaxUuids}
IngestInit == WorkerInit /\ IntakeInit /\ HelperInit /\ environ \in Environments
IngestNext ==
  \/ \E r \in Requests, uuid \in Uuids : Ingest(r, uuid)
  \/ Reply
IngestSpec == IngestInit /\ [][IngestNext]_vars

\* ------------------------------------------------ the store's other clients

\* Another client of the store marks the document at p with a field `note` that
\* holds the document's current source.
Annotate(p) ==
  /\ p \in DOMAIN store
  /\ "note" \notin DOMAIN store[p]
  /\ store' = [store EXCEPT ![p] = [k \in DOMAIN @ \cup {"note"} |->
                                      IF k = "note" THEN @.source ELSE @[k]]]
  /\ UNCHANGED <<channel, acked, inv, _db, intakeVars, helperVars>>

\* The messages that reach the write: a body that decodes, and a tenant_id and a
\* log_id that make a document path.
Writable ==
  {m \in TransportMessages :
     /\ m.data # <<>>
     /\ Utf8Decode(m.data) # DecodeError
     /\ ~Falsy(Get(m.attributes, "tenant_id", None))
     /\ ~Falsy(Get(m.attributes, "log_id", None))
     /\ DocRef(m.attributes.tenant_id, m.attributes.log_id) # PathError}

\* The worker, on a store that another client writes to as well.
MergeNext ==
  \/ \E m \in Writable : ChannelPublish(m)
  \/ \E w \in Workers, m \in channel : Deliver(w, m)
  \/ \E w \in Workers : Write(w)
  \/ \E w \in Workers : WriteFails(w)
  \/ \E w \in Workers : Release(w)
  \/ \E p \in DOMAIN store : Annotate(p)

MergeSpec == Init /\ [][MergeNext]_vars

\* ------------------------------------------------------------- end to end

\* The Pub/Sub client sends the message ingest handed to it, and the topic holds
\* it.
Accept ==
  /\ handed # <<>>
  /\ handed[1].message \notin channel
  /\ channel' = channel \cup {handed[1].message}
  /\ UNCHANGED <<acked, inv, store, _db, intakeVars, helperVars>>

\* One request to the intake function, and the worker on what it published.
EndToEndNext ==
  \/ \E r \in Requests, uuid \in Uuids : Ingest(r, uuid)
  \/ Accept
  \/ \E w \in Workers, m \in channel : Deliver(w, m)
  \/ \E w \in Workers : Write(w)
  \/ \E w \in Workers : WriteFails(w)
  \/ \E w \in Workers : Release(w)

EndToEndSpec == IngestInit /\ [][EndToEndNext]_vars

\* The scheduling of the path from the intake function to the store: the channel
\* takes what the client was handed, delivers an unacknowledged message again
\* and again, the host sees a finished invocation, and the storage backend does
\* not refuse writes for ever.
EndToEndFairness ==
  /\ WF_vars(Accept)
  /\ SF_vars(\E w \in Workers, m \in channel : Deliver(w, m))
  /\ WF_vars(\E w \in Workers : Release(w))
  /\ SF_vars(\E w \in Workers : Write(w))

EndToEndLiveSpec == IngestInit /\ [][EndToEndNext]_vars /\ EndToEndFairness

\* ------------------------------------------------- _redact_sensitive, called

\* The chunks the texts are made of: "555-", "123-", "4567", "5", "-", "a", " ".
Chunks ==
  {<<53, 53, 53, Dash>>, <<49, 50, 51, Dash>>, <<52, 53, 54, 55>>, <<53>>, <<Dash>>,
   <<97>>, <<32>>}

\* The texts of up to n chunks.
ChunkTexts(n) ==
  LET texts[k \in 0..n] ==
        IF k = 0 THEN {<<>>}
        ELSE texts[k - 1] \cup {t \o c : t \in texts[k - 1], c \in Chunks}
  IN texts[n]

\* A text is chosen.
RedactInit ==
  /\ WorkerInit /\ IntakeInit /\ ClientInit /\ NoSleepInit /\ environ = Deployed
  /\ redact_text \in ChunkTexts(MaxChunks)
  /\ redact_results = <<>>

\* _redact_sensitive is called with the text, and then with its own result.
Redact ==
  /\ Len(redact_results) < 2
  /\ redact_results' =
       Append(redact_results,
              _redact_sensitive(IF redact_results = <<>> THEN redact_text
                                ELSE redact_results[Len(redact_results)]))
  /\ UNCHANGED <<redact_text, clientVars, sleepVars, workerVars, intakeVars>>

RedactSpec == RedactInit /\ [][Redact]_vars

\* ------------------------------------------- _get_db and _get_publisher, by step

\* The global a getter reads and writes: _db in the worker's process, _publisher
\* in the intake function's.
Global(g) == IF g = "_get_db" THEN _db ELSE _publisher

\* A thread calls _get_db() or _get_publisher().
CallGetter(t, g) ==
  /\ getting[t].pc = "idle"
  /\ getting' = [getting EXCEPT ![t] = [@ EXCEPT !.pc = "test", !.fn = g]]
  /\ UNCHANGED <<built, redact_text, redact_results, sleepVars, workerVars, intakeVars>>

\* "if _db is None:": the thread reads the global and takes the branch.
TestGlobal(t) ==
  /\ getting[t].pc = "test"
  /\ getting' = [getting EXCEPT ![t].pc =
                   IF Global(getting[t].fn) = 0 THEN "construct" ELSE "return"]
  /\ UNCHANGED <<built, redact_text, redact_results, sleepVars, workerVars, intakeVars>>

\* "firestore.Client()" or "pubsub_v1.PublisherClient()": a new client, named by
\* its number, is constructed; the global is not yet written.
ConstructClient(t) ==
  /\ getting[t].pc = "construct"
  /\ LET g == getting[t].fn
         c == built[g].constructed + 1
     IN /\ built' = [built EXCEPT ![g].constructed = c]
        /\ getting' = [getting EXCEPT ![t] = [@ EXCEPT !.pc = "assign", !.client = c]]
  /\ UNCHANGED <<redact_text, redact_results, sleepVars, workerVars, intakeVars>>

\* "_db = ...": the client is stored in the global.
AssignGlobal(t) ==
  /\ getting[t].pc = "assign"
  /\ LET g == getting[t].fn
     IN /\ built' = [built EXCEPT ![g].assigned = @ + 1]
        /\ IF g = "_get_db"
           THEN _db' = getting[t].client /\ UNCHANGED _publisher
           ELSE _publisher' = getting[t].client /\ UNCHANGED _db
  /\ getting' = [getting EXCEPT ![t].pc = "return"]
  /\ UNCHANGED <<channel, acked, inv, store, environ, request, normalized, handed,
                 response, redact_text, redact_results, sleepVars>>

\* "return _db": the thread reads the global again and is handed its value.
ReturnGlobal(t) ==
  /\ getting[t].pc = "return"
  /\ getting' = [getting EXCEPT ![t] = NotGetting(Global(getting[t].fn))]
  /\ UNCHANGED <<built, redact_text, redact_results, sleepVars, workerVars, intakeVars>>

ClientNext ==
  \/ \E t \in Threads, g \in Getters : CallGetter(t, g)
  \/ \E t \in Threads : TestGlobal(t)
  \/ \E t \in Threads : ConstructClient(t)
  \/ \E t \in Threads : AssignGlobal(t)
  \/ \E t \in Threads : ReturnGlobal(t)

ClientSpec == Init /\ [][ClientNext]_vars

\* --------------------------------------- _simulate_heavy_processing, called

\* A mutant of _simulate_heavy_processing: the sleep is not capped.
_simulate_heavy_processing_NoCap(text, env) ==
  LET delay_per_char == Get(env, "DELAY_PER_CHAR", DelayPerChar)
      total_sleep == delay_per_char * Len(text)
  IN total_sleep

\* Lines 56-62: the duration passed to time.sleep, in hundredths of a second.
\* The environment holds the two settings as the numbers float() reads from
\* them, in hundredths; a setting that is not there has its default.
_simulate_heavy_processing(text, env) ==
  LET delay_per_char == Get(env, "DELAY_PER_CHAR", DelayPerChar)
      total_sleep == delay_per_char * Len(text)
      max_sleep == Get(env, "MAX_TOTAL_SLEEP", MaxTotalSleep)
  IN Min(total_sleep, max_sleep)

\* The lengths of the texts: short ones, and those around the length at which
\* the default delay reaches the default cap.
SleepLengths ==
  (0..MaxSleepLen)
    \cup {(MaxTotalSleep \div DelayPerChar) + k : k \in (0 - MaxSleepLen)..MaxSleepLen}

\* The worker's environments: the defaults, and settings of either variable.
SleepEnvironments ==
  {EmptyMap}
    \cup {("DELAY_PER_CHAR" :> d) : d \in {0, 1, 100}}
    \cup {("MAX_TOTAL_SLEEP" :> m) : m \in {0, 12, 100}}
    \cup {("DELAY_PER_CHAR" :> d) @@ ("MAX_TOTAL_SLEEP" :> m) :
            d \in {1, 100}, m \in {12, 100}}

\* A text and an environment are chosen.
SleepInit ==
  /\ WorkerInit /\ IntakeInit /\ ClientInit /\ environ = Deployed
  /\ redact_text = <<>> /\ redact_results = <<>>
  /\ sleep_text \in {[k \in 1..n |-> 97] : n \in SleepLengths}
  /\ sleep_environ \in SleepEnvironments
  /\ sleep_slept = -1

\* _simulate_heavy_processing is called with the text.
Sleep ==
  /\ sleep_slept = -1
  /\ sleep_slept' = _simulate_heavy_processing(sleep_text, sleep_environ)
  /\ UNCHANGED <<sleep_text, sleep_environ, redact_text, redact_results, clientVars,
                 workerVars, intakeVars>>

SleepSpec == SleepInit /\ [][Sleep]_vars

\* ------------------------------------------------------------------ claims

\* What a message says, read off the message itself.
TenantOf(m) == IF "tenant_id" \in DOMAIN m.attributes THEN m.attributes.tenant_id ELSE None
LogOf(m) == IF "log_id" \in DOMAIN m.attributes THEN m.attributes.log_id ELSE None
SourceOf(m) == IF "source" \in DOMAIN m.attributes THEN m.attributes.source ELSE StrUnknown
TextOf(m) == Utf8Decode(m.data)
Missing(v) == v = None \/ v = <<>>

\* The document name "tenants/{tenant_id}/processed_logs/{log_id}".
KeyName(tenant_id, log_id) ==
  StrTenants \o <<Slash>> \o tenant_id \o <<Slash>> \o StrProcessedLogs \o <<Slash>> \o log_id

\* Worker w completes a write in this step.
CompletesWrite(w) == inv[w].pc = "simulate" /\ inv'[w].pc = "returned"

\* C1: every completed write of a message, whatever was processed before it or is
\* being processed beside it, leaves exactly one document named
\* tenants/{tenant_id}/processed_logs/{log_id}, whose source, original_text and
\* modified_data are those of the message, and neither creates nor changes a
\* document of another name.
C1_IdempotentConvergence ==
  [][\A w \in Workers :
       CompletesWrite(w) =>
         LET m == inv[w].msg
             key == KeyName(TenantOf(m), LogOf(m))
         IN /\ Cardinality({p \in DOMAIN store' : Join(p) = key}) = 1
            /\ \A p \in DOMAIN store' :
                 IF Join(p) = key
                 THEN /\ store'[p].source = SourceOf(m)
                      /\ store'[p].original_text = TextOf(m)
                      /\ store'[p].modified_data = _redact_sensitive(TextOf(m))
                 ELSE p \in DOMAIN store /\ store'[p] = store[p]]_vars

\* C1's case: the same message has been processed to a completed write twice.
C1_Witness ==
  \E v, w \in Workers :
    /\ v # w
    /\ inv[v].pc = "returned" /\ inv[v].wrote
    /\ inv[w].pc = "returned" /\ inv[w].wrote
    /\ inv[v].msg = inv[w].msg

\* The tenants of the messages, and whether the document at path p lies in the
\* namespace tenants/{tenant}/processed_logs/ of a tenant.
TenantIds == {TenantOf(m) : m \in TransportMessages} \ {None, <<>>}
BelongsTo(p, tenant) ==
  LET prefix == KeyName(tenant, <<>>)
  IN Len(Join(p)) > Len(prefix) /\ SubSeq(Join(p), 1, Len(prefix)) = prefix

\* C2: two tenants' records with the same log id have different document names,
\* and a write for tenant A creates or changes no document in the namespace of a
\* tenant B # A.
C2_TenantIsolation ==
  [][/\ \A a, b \in TenantIds, l \in {IdX} : a # b => KeyName(a, l) # KeyName(b, l)
     /\ \A w \in Workers :
          CompletesWrite(w) =>
            \A b \in TenantIds \ {TenantOf(inv[w].msg)} :
              \A p \in DOMAIN store' :
                BelongsTo(p, b) => p \in DOMAIN store /\ store'[p] = store[p]]_vars

\* C3 as stated: an invocation for a message whose tenant_id or log_id is missing
\* or empty ends in an error and writes nothing.
C3_IdentityEnforcementAsStated ==
  \A w \in Workers :
    (inv[w].pc # "idle" /\ (Missing(TenantOf(inv[w].msg)) \/ Missing(LogOf(inv[w].msg))))
      => (inv[w].pc = "raised" /\ ~inv[w].wrote)

\* C3, amended: an invocation for a message with a non-empty body whose tenant_id
\* or log_id is missing or empty ends in an error (the RuntimeError of the
\* identity check when the body decodes) and writes nothing.
C3_IdentityEnforcement ==
  \A w \in Workers :
    (/\ inv[w].pc # "idle"
     /\ inv[w].msg.data # <<>>
     /\ (Missing(TenantOf(inv[w].msg)) \/ Missing(LogOf(inv[w].msg))))
      => /\ inv[w].pc = "raised"
         /\ ~inv[w].wrote
         /\ inv[w].slept = -1
         /\ (TextOf(inv[w].msg) # DecodeError => inv[w].error = "RuntimeError")

\* C3's case: a message with a body and an empty tenant_id has been delivered.
C3_Witness ==
  \E w \in Workers :
    /\ inv[w].pc = "raised"
    /\ inv[w].msg.data # <<>>
    /\ TenantOf(inv[w].msg) = <<>>

\* C4: an invocation for a message with an empty or absent body returns normally
\* with no error, no write and no delay, whatever its attributes; and no other
\* invocation returns normally without a write.
C4_EmptyBodyNoOp ==
  \A w \in Workers :
    /\ (inv[w].pc # "idle" /\ inv[w].msg.data = <<>>)
         => (inv[w].pc = "returned" /\ inv[w].error = "" /\ ~inv[w].wrote
             /\ inv[w].slept = -1)
    /\ (inv[w].pc = "returned" /\ ~inv[w].wrote) => inv[w].msg.data = <<>>

\* C4's case: an empty message with no identity has been delivered, in an event
\* that leaves the body out.
C4_Witness ==
  \E w \in Workers :
    /\ inv[w].pc = "returned"
    /\ inv[w].msg.data = <<>>
    /\ Missing(TenantOf(inv[w].msg))
    /\ "data" \notin DOMAIN inv[w].event

\* C5: an invocation that returns normally for a message with a non-empty body has
\* written the message's record itself, and a document of the message's name is
\* in the store; one whose write failed has raised.
C5_WriteFailurePropagates ==
  \A w \in Workers :
    /\ (inv[w].pc = "returned" /\ inv[w].msg.data # <<>>)
         => /\ inv[w].wrote
            /\ \E p \in DOMAIN store :
                 Join(p) = KeyName(TenantOf(inv[w].msg), LogOf(inv[w].msg))
    /\ inv[w].error = "BackendUnavailable" => (inv[w].pc = "raised" /\ ~inv[w].wrote)

\* C5's case: a write has failed.
C5_Witness ==
  \E w \in Workers : inv[w].pc = "raised" /\ inv[w].error = "BackendUnavailable"

\* The messages with a body that decodes and a non-empty tenant_id and log_id.
Persistable ==
  {m \in TransportMessages :
     /\ m.data # <<>>
     /\ TextOf(m) # DecodeError
     /\ ~Missing(TenantOf(m))
     /\ ~Missing(LogOf(m))}

Stored(m) == \E p \in DOMAIN store : Join(p) = KeyName(TenantOf(m), LogOf(m))

\* C6: under redelivery after every error and a backend that eventually accepts
\* writes, every message in the channel with a non-empty (decodable) body and a
\* non-empty tenant_id and log_id is eventually stored under its name and
\* acknowledged.
C6_EventualPersistence ==
  \A m \in Persistable : [](m \in channel => <>(Stored(m) /\ m \in acked))

\* What the last request declares: its content type, and whether it is of the
\* JSON kind or the plain-text kind.
ContentTypeOf(r) == Get(r.headers, "Content-Type", <<>>)
JsonKind(r) == Contains(ContentTypeOf(r), CtJson)
TextKind(r) == ~JsonKind(r) /\ Contains(ContentTypeOf(r), CtTextPlain)

\* A request has been handled.
Handled == response.status_code # 0

\* Field k of the JSON object is missing, empty or not a string.
BadField(r, k) ==
  \/ k \notin DOMAIN r.json.fields
  \/ ~IsStr(r.json.fields[k])
  \/ r.json.fields[k] = <<>>

\* The validation failures: a method other than POST, a content kind other than
\* the two, a JSON object with a bad tenant_id or text, plain text with no tenant
\* header.
FailsValidation(r) ==
  \/ r.method # StrPost
  \/ ~JsonKind(r) /\ ~TextKind(r)
  \/ JsonKind(r) /\ r.json.type = "dict" /\ (BadField(r, "tenant_id") \/ BadField(r, "text"))
  \/ TextKind(r) /\ "X-Tenant-ID" \notin DOMAIN r.headers

\* The response is a 4xx with a body {"error": message}.
Rejected ==
  /\ response.status_code \in 400..499
  /\ \E message \in {MsgInvalidJson, MsgTenantRequired, MsgTextRequired,
                     MsgHeaderRequired, MsgUnsupported, MsgMethodNotAllowed} :
       response.body = JsonDumps(<<<<StrError, message>>>>)

\* C7: a request that fails validation is answered with a 4xx status and a body
\* {"error": message}, and no message is handed to the channel for it.
C7_ValidationFailurePublishesNothing ==
  (Handled /\ FailsValidation(request)) => (Rejected /\ handed = <<>>)

\* C7's case: in a deployment that can publish, a JSON request with a tenant_id
\* and a text that is not a string has been answered.
C7_Witness ==
  /\ Handled
  /\ environ = Deployed
  /\ request.method = StrPost /\ JsonKind(request) /\ request.json.type = "dict"
  /\ ~BadField(request, "tenant_id")
  /\ Get(request.json.fields, "text", None) = JsonInt(5)
  /\ response.status_code = 400

\* C8: a plain-text request whose body is not UTF-8, and a JSON request whose body
\* is not a JSON object, are answered with a 4xx status and {"error": message},
\* never with 500.
C8_EncodingErrorsAreValidationErrors ==
  (/\ Handled
   /\ request.method = StrPost
   /\ \/ TextKind(request) /\ Utf8Decode(request.data) = DecodeError
      \/ JsonKind(request) /\ request.json.type # "dict")
    => Rejected

\* C9: a 202 follows the hand-off of exactly one message, whose body is the UTF-8
\* encoding of the normalized text and whose attributes are the normalized
\* tenant_id, log_id and source; the 202 body echoes tenant_id and log_id; a
\* non-empty log_id of a JSON body is the one used, another one is used only when
\* the JSON body has none (or null) or an empty one, and plain text always gets a
\* generated one.
C9_AcceptedMeansHandedOff ==
  response.status_code = 202 =>
    /\ Len(handed) = 1
    /\ handed[1].message.data = Utf8Encode(normalized.text)
    /\ handed[1].message.attributes =
         [tenant_id |-> normalized.tenant_id, log_id |-> normalized.log_id,
          source |-> normalized.source]
    /\ response.body = JsonDumps(<<<<StrStatus, StrAccepted>>,
                                   <<StrTenantId, normalized.tenant_id>>,
                                   <<StrLogId, normalized.log_id>>>>)
    /\ JsonKind(request) =>
         LET supplied == Get(request.json.fields, "log_id", Absent)
         IN /\ (IsStr(supplied) /\ supplied # <<>>) => normalized.log_id = supplied
            /\ normalized.log_id # supplied => supplied \in {Absent, None, <<>>}
    /\ TextKind(request) => normalized.log_id \in Uuids

\* C10: every message a normalizer returns has a tenant_id, a log_id and a text
\* that are non-empty strings, and the source json_upload or text_upload.
C10_NormalizedWellFormed ==
  normalized # NotNormalized =>
    /\ \A k \in {"tenant_id", "log_id", "text"} :
         IsStr(normalized[k]) /\ normalized[k] # <<>>
    /\ normalized.source \in {StrJsonUpload, StrTextUpload}

\* "555-123-4567".
Phone10 == <<53, 53, 53, Dash, 49, 50, 51, Dash, 52, 53, 54, 55>>

\* C11: redacting a redacted text changes nothing:
\* _redact_sensitive(_redact_sensitive(s)) = _redact_sensitive(s).
C11_RedactionIdempotent ==
  Len(redact_results) = 2 => redact_results[2] = redact_results[1]

\* C11's case: a text with a phone number in it has been redacted twice, and the
\* first redaction changed it.
C11_Witness ==
  /\ Len(redact_results) = 2
  /\ redact_results[1] # redact_text
  /\ \E p \in 1..Len(redact_text) : MatchAt(redact_text, PatternA, p)

\* C12: every occurrence of Pattern B between word boundaries is replaced by one
\* token [REDACTED], none of its digits left: the result is the redaction of what
\* precedes the occurrence, the token, and the redaction of what follows it; and
\* "555-123-4567" gives "[REDACTED]".
C12_PatternBWhole ==
  Len(redact_results) >= 1 =>
    /\ redact_text = Phone10 => redact_results[1] = StrRedacted
    /\ \A p \in 1..Len(redact_text) :
         MatchAt(redact_text, PatternB, p) =>
           redact_results[1] =
             _redact_sensitive(SubSeq(redact_text, 1, p - 1)) \o StrRedacted
             \o _redact_sensitive(SubSeq(redact_text, p + Len(PatternB), Len(redact_text)))

\* "call [REDACTED]".
TextCallRedacted == <<99, 97, 108, 108, 32>> \o StrRedacted

\* C13: for a request answered with 202, the worker that has decoded the message
\* holds the tenant_id, log_id, source and text the normalizer produced, and the
\* write it completes leaves, under the name of (tenant_id, log_id), a record whose
\* original_text is the submitted text and whose modified_data is its redaction
\* ("call [REDACTED]" for "call 555-0199").
C13_EndToEndRoundTrip ==
  [][response.status_code = 202 =>
       \A w \in Workers :
         /\ inv[w].pc = "simulate" =>
              /\ inv[w].tenant_id = normalized.tenant_id
              /\ inv[w].log_id = normalized.log_id
              /\ inv[w].source = normalized.source
              /\ inv[w].original_text = normalized.text
         /\ CompletesWrite(w) =>
              \E p \in DOMAIN store' :
                /\ Join(p) = KeyName(normalized.tenant_id, normalized.log_id)
                /\ store'[p].source = normalized.source
                /\ store'[p].original_text = normalized.text
                /\ store'[p].modified_data = _redact_sensitive(normalized.text)
                /\ normalized.text = TextCall => store'[p].modified_data = TextCallRedacted]_vars

\* C13's case: the worker has written the record of an accepted plain-text request
\* with the body "call 555-0199".
C13_Witness ==
  /\ response.status_code = 202
  /\ normalized.text = TextCall
  /\ \E w \in Workers : inv[w].pc = "returned" /\ inv[w].wrote

\* The steps of process_log in the order of the spec, and whether a is a prefix of b.
StepOrder == <<"decode", "validate", "simulate", "redact", "write">>
IsPrefix(a, b) == Len(a) <= Len(b) /\ a = SubSeq(b, 1, Len(a))

\* C14: the steps an invocation has run are an initial part of decode, validate,
\* simulate, redact, write; an invocation that has written has slept before; and
\* one whose message fails the identity check has run decode and validate only,
\* with no sleep and no write.
C14_StepOrdering ==
  \A w \in Workers :
    /\ IsPrefix(inv[w].steps, StepOrder)
    /\ inv[w].wrote =>
         /\ inv[w].slept = SleepDuration(Len(TextOf(inv[w].msg)))
         /\ \E k \in 1..Len(inv[w].steps) :
              inv[w].steps[k] = "simulate" /\ inv[w].steps[Len(inv[w].steps)] = "write"
    /\ inv[w].error = "RuntimeError" =>
         /\ inv[w].steps = <<"decode", "validate">>
         /\ inv[w].slept = -1
         /\ ~inv[w].wrote

\* C14's case: an invocation has run all five steps and written.
C14_Witness ==
  \E w \in Workers :
    inv[w].pc = "returned" /\ inv[w].wrote /\ inv[w].steps = StepOrder

\* The fields process_log writes.
WrittenFields == {"source", "original_text", "modified_data", "processed_at"}

\* C15: a completed write leaves one document named
\* tenants/{tenant_id}/processed_logs/{log_id}; its fields are the ones it had
\* before and the four written ones, the four hold the message's source, text and
\* redaction and a timestamp, every other field keeps its value, and every other
\* document is unchanged.
C15_MergeUpsertFrame ==
  [][\A w \in Workers :
       CompletesWrite(w) =>
         LET m == inv[w].msg
             key == KeyName(TenantOf(m), LogOf(m))
         IN /\ Cardinality({p \in DOMAIN store' : Join(p) = key}) = 1
            /\ DOMAIN store \subseteq DOMAIN store'
            /\ \A p \in DOMAIN store' :
                 IF Join(p) = key
                 THEN LET before == IF p \in DOMAIN store THEN store[p] ELSE EmptyMap
                      IN /\ DOMAIN store'[p] = DOMAIN before \cup WrittenFields
                         /\ store'[p].source = SourceOf(m)
                         /\ store'[p].original_text = TextOf(m)
                         /\ store'[p].modified_data = _redact_sensitive(TextOf(m))
                         /\ store'[p].processed_at \in Times
                         /\ \A k \in DOMAIN before \ WrittenFields :
                              store'[p][k] = before[k]
                 ELSE p \in DOMAIN store /\ store'[p] = store[p]]_vars

\* C15's case: a document was marked while its source was json_upload, and a
\* message with the source text_upload has been written over it since.
C15_Witness ==
  \E w \in Workers, p \in DOMAIN store :
    /\ inv[w].pc = "returned" /\ inv[w].wrote
    /\ Join(p) = KeyName(TenantOf(inv[w].msg), LogOf(inv[w].msg))
    /\ "note" \in DOMAIN store[p]
    /\ store[p].note = StrJsonUpload
    /\ store[p].source = StrTextUpload

\* C16: in each process the client behind _get_db and the one behind
\* _get_publisher is constructed at most once and its global is stored at most
\* once, whatever the interleaving of the threads that ask for it first.
C16_InitializeOnce ==
  \A g \in Getters : built[g].constructed <= 1 /\ built[g].assigned <= 1

\* The settings in force when _simulate_heavy_processing was called directly.
DelayInForce == Get(sleep_environ, "DELAY_PER_CHAR", DelayPerChar)
CapInForce == Get(sleep_environ, "MAX_TOTAL_SLEEP", MaxTotalSleep)

\* C17: for a text of length L the simulator sleeps delay * L when that is at
\* most the cap and the cap otherwise (5 and 5500 hundredths of a second by
\* default): never more than the cap, and exactly the cap when delay * L
\* exceeds it.
C17_ProcessingCostBound ==
  sleep_slept # -1 =>
    LET product == DelayInForce * Len(sleep_text)
    IN /\ sleep_slept <= CapInForce
       /\ sleep_slept <= product
       /\ product > CapInForce => sleep_slept = CapInForce
       /\ product <= CapInForce => sleep_slept = product

\* A text longer than 1100 characters has been slept for under the defaults,
\* for 55 seconds.
C17_Witness ==
  /\ sleep_environ = EmptyMap
  /\ DelayPerChar * Len(sleep_text) > MaxTotalSleep
  /\ sleep_slept = MaxTotalSleep

\* C18: every stored document holds the redaction of its own original_text, and
\* its source, original_text and modified_data are those of one message that was
\* published under the document's name, however the invocations for different
\* messages of the same name interleave.
C18_StoredRecordConsistency ==
  \A p \in DOMAIN store :
    /\ store[p].modified_data = _redact_sensitive(store[p].original_text)
    /\ \E m \in channel :
         /\ Join(p) = KeyName(TenantOf(m), LogOf(m))
         /\ store[p].source = SourceOf(m)
         /\ store[p].original_text = TextOf(m)
         /\ store[p].modified_data = _redact_sensitive(TextOf(m))

\* C18's case: two workers hold invocations for different messages of the same
\* name, with different texts, and both have written.
C18_Witness ==
  \E v, w \in Workers, p \in DOMAIN store :
    /\ v # w
    /\ inv[v].pc = "returned" /\ inv[v].wrote
    /\ inv[w].pc = "returned" /\ inv[w].wrote
    /\ inv[v].msg # inv[w].msg
    /\ TextOf(inv[v].msg) # TextOf(inv[w].msg)
    /\ Join(p) = KeyName(TenantOf(inv[v].msg), LogOf(inv[v].msg))
    /\ Join(p) = KeyName(TenantOf(inv[w].msg), LogOf(inv[w].msg))

\* C19: two invocations that have written for different pairs (tenant_id, log_id)
\* have written to different documents, also when an identifier holds '/'.
C19_KeyInjectivity ==
  \A v, w \in Workers :
    /\ inv[v].wrote /\ inv[w].wrote
    /\ <<inv[v].tenant_id, inv[v].log_id>> # <<inv[w].tenant_id, inv[w].log_id>>
    => DocRef(inv[v].tenant_id, inv[v].log_id) # DocRef(inv[w].tenant_id, inv[w].log_id)

\* C20: once a request is answered with 202, under delivery with redelivery and a
\* backend that eventually accepts writes, a document eventually exists under the
\* name of the tenant_id and log_id of the response.
C20_AcceptedEventuallyStored ==
  [](response.status_code = 202 =>
       <>(\E p \in DOMAIN store :
            Join(p) = KeyName(normalized.tenant_id, normalized.log_id)))

====
